---- MODULE Spec2Model ----
(***************************************************************************)
(* A model of two parts of the registry:                                   *)
(*                                                                         *)
(*   - crates/forrest/src/map/path.rs: Path, the double-ended bit iterator *)
(*     over the digest of a key (specification SpecPath);                  *)
(*   - crates/warg/src/package/{mod.rs,model.rs}: the signed Envelope, the *)
(*     PackageRecord model and its protobuf codec (specification SpecEnv). *)
(***************************************************************************)
EXTENDS Integers, Sequences, FiniteSets, TLC

VARIABLES
    path,       \* the Path under iteration: [all, lhs, rhs]
    fwd,        \* what the calls to next that returned Some returned, in order
    bwd,        \* what the calls to next_back that returned Some returned, in order
    ret,        \* the value returned by the last call on the path
    sawNone,    \* a call on the path has returned None
    noneCalls,  \* how many calls on the path have returned None
    pkgRecord,  \* the PackageRecord a caller publishes
    privKey,    \* the caller's private key
    env,        \* what Envelope::signed_contents returned, and what the signer did
    buf,        \* a byte image: what it is an image of, the bytes, where it is from
                \* (from) and how it was written (d)
    res,        \* what decoding buf returned
    out,        \* what Envelope::as_bytes of the decoded envelope returned
    anEntry,    \* a PackageEntry handed to required_permission
    perm        \* what required_permission returned

pathVars == <<path, fwd, bwd, ret, sawNone, noneCalls>>
envVars == <<pkgRecord, privKey, env, buf, res, out>>
permVars == <<anEntry, perm>>

vars == <<path, fwd, bwd, ret, sawNone, noneCalls, pkgRecord, privKey, env, buf, res, out,
          anEntry, perm>>

(***************************************************************************)
(* Bounds of the model.                                                    *)
(***************************************************************************)
\* Output size of the digest D in bytes (32 for SHA-256), scaled down.
DigestLen == 2
\* How many calls that return None the model follows.
MaxNoneCalls == 3
\* How many entries a record of the model holds at most.
MaxEntries == 2

\* The byte values digests are drawn from: all bit patterns that tell MSB-first
\* from LSB-first order and one byte from the other.
ByteVals == {0, 1, 128, 165, 255}

Pow2(n) == 2 ^ n

\* F applied to the value v: a local name for a value that is computed once.
With(v, F(_)) == F(v)


(***************************************************************************)
(* Bytes and text. A byte string is a sequence of numbers 0..255; a text   *)
(* is the byte string of its ASCII characters.                             *)
(***************************************************************************)
Colon == <<58>>
Dot == <<46>>
HexDigits == <<48, 49, 50, 51, 52, 53, 54, 55, 56, 57, 97, 98, 99, 100, 101, 102>>
TxtSha256 == <<115, 104, 97, 50, 53, 54>>
TxtEcdsaP256 == <<101, 99, 100, 115, 97, 45, 112, 50, 53, 54>>

\* The position of the first c in s at or after i, 0 when there is none.
RECURSIVE IndexFrom(_, _, _)
IndexFrom(s, c, i) ==
    IF i > Len(s) THEN 0
    ELSE IF s[i] = c THEN i
    ELSE IndexFrom(s, c, i + 1)

\* The sum of the bytes of s modulo 256, by halves.
RECURSIVE SumBytes(_)
SumBytes(s) ==
    IF s = <<>> THEN 0
    ELSE IF Len(s) = 1 THEN s[1] % 256
    ELSE (SumBytes(SubSeq(s, 1, Len(s) \div 2))
            + SumBytes(SubSeq(s, (Len(s) \div 2) + 1, Len(s)))) % 256

\* Lower-case hexadecimal, two digits a byte.
RECURSIVE HexEncode(_)
HexEncode(bs) ==
    IF bs = <<>> THEN <<>>
    ELSE <<HexDigits[(bs[1] \div 16) + 1], HexDigits[(bs[1] % 16) + 1]>> \o HexEncode(Tail(bs))

HexVal(c) ==
    IF c >= 48 /\ c <= 57 THEN c - 48
    ELSE IF c >= 97 /\ c <= 102 THEN c - 87
    ELSE -1

RECURSIVE HexDecode(_)
HexDecode(t) ==
    IF t = <<>> THEN [ok |-> TRUE, v |-> <<>>]
    ELSE IF Len(t) = 1 \/ HexVal(t[1]) < 0 \/ HexVal(t[2]) < 0 THEN [ok |-> FALSE, v |-> <<>>]
    ELSE LET rest == HexDecode(SubSeq(t, 3, Len(t)))
         IN  [ok |-> rest.ok, v |-> <<HexVal(t[1]) * 16 + HexVal(t[2])>> \o rest.v]

\* Decimal digits of a natural number, and back.
RECURSIVE DecEncode(_)
DecEncode(n) ==
    IF n < 10 THEN <<48 + n>> ELSE DecEncode(n \div 10) \o <<48 + (n % 10)>>

RECURSIVE DecDecodeAcc(_, _)
DecDecodeAcc(t, acc) ==
    IF t = <<>> THEN [ok |-> TRUE, v |-> acc]
    ELSE IF t[1] < 48 \/ t[1] > 57 THEN [ok |-> FALSE, v |-> 0]
    ELSE DecDecodeAcc(Tail(t), acc * 10 + (t[1] - 48))

DecDecode(t) == IF t = <<>> THEN [ok |-> FALSE, v |-> 0] ELSE DecDecodeAcc(t, 0)

(***************************************************************************)
(* crate::hash, crate::signing, crate::version: the typed values and their *)
(* text forms "<tag>:<body>" and "M.m.p".                                  *)
(***************************************************************************)
\* Digest size of SHA-256 in bytes (32), scaled down.
HashBytes == 1

HashAlgorithm_to_string(a) == TxtSha256
HashAlgorithm_parse(t) ==
    IF t = TxtSha256 THEN [ok |-> TRUE, v |-> "SHA256"] ELSE [ok |-> FALSE, v |-> "SHA256"]

NoHash == [algo |-> "SHA256", bytes |-> <<>>]

Hash_to_string(h) == HashAlgorithm_to_string(h.algo) \o Colon \o HexEncode(h.bytes)
Hash_parse(t) ==
    With(IndexFrom(t, 58, 1), LAMBDA c :
        IF c = 0 THEN [ok |-> FALSE, v |-> NoHash]
        ELSE With(HashAlgorithm_parse(SubSeq(t, 1, c - 1)), LAMBDA a :
             With(HexDecode(SubSeq(t, c + 1, Len(t))), LAMBDA b :
                 IF a.ok /\ b.ok /\ Len(b.v) = HashBytes
                 THEN [ok |-> TRUE, v |-> [algo |-> a.v, bytes |-> b.v]]
                 ELSE [ok |-> FALSE, v |-> NoHash])))

\* HashAlgorithm::digest: a stand-in for SHA-256 with HashBytes bytes of output.
HashAlgorithm_digest(a, data) ==
    [algo |-> a, bytes |-> [i \in 1..HashBytes |-> (SumBytes(data) * 7 + 13 * i + Len(data)) % 256]]

NoKey == [algo |-> "EcdsaP256", bytes |-> <<>>]

PublicKey_to_string(k) == TxtEcdsaP256 \o Colon \o HexEncode(k.bytes)
PublicKey_parse(t) ==
    With(IndexFrom(t, 58, 1), LAMBDA c :
        IF c = 0 \/ SubSeq(t, 1, c - 1) # TxtEcdsaP256 THEN [ok |-> FALSE, v |-> NoKey]
        ELSE With(HexDecode(SubSeq(t, c + 1, Len(t))), LAMBDA b :
                 IF b.ok /\ Len(b.v) = 1
                 THEN [ok |-> TRUE, v |-> [algo |-> "EcdsaP256", bytes |-> b.v]]
                 ELSE [ok |-> FALSE, v |-> NoKey]))

PublicKey_digest(k) == HashAlgorithm_digest("SHA256", k.bytes)

\* A private key and its public key: in this stand-in for ECDSA they carry the
\* same byte, and a signature is valid when its first byte is the checksum of
\* key and message; its second byte is the signer's nonce.
PrivateKey_public_key(sk) == [algo |-> "EcdsaP256", bytes |-> sk.bytes]
SigCheck(pk, msg) == (pk.bytes[1] * 3 + SumBytes(msg) + Len(msg)) % 256
Nonces == {17, 200}
\* PrivateKey::sign: the results the signer may return, a signature or a failure.
PrivateKey_sign(sk, msg) ==
    {[ok |-> TRUE,
      v |-> [algo |-> "EcdsaP256", bytes |-> <<SigCheck(PrivateKey_public_key(sk), msg), n>>]]
        : n \in Nonces}
    \cup {[ok |-> FALSE]}
\* signature verification under a public key
Verify(pk, msg, sig) == Len(sig.bytes) = 2 /\ sig.bytes[1] = SigCheck(pk, msg)

NoSig == [algo |-> "EcdsaP256", bytes |-> <<>>]

Signature_to_string(s) == TxtEcdsaP256 \o Colon \o HexEncode(s.bytes)
Signature_parse(t) ==
    With(IndexFrom(t, 58, 1), LAMBDA c :
        IF c = 0 \/ SubSeq(t, 1, c - 1) # TxtEcdsaP256 THEN [ok |-> FALSE, v |-> NoSig]
        ELSE With(HexDecode(SubSeq(t, c + 1, Len(t))), LAMBDA b :
                 IF b.ok /\ Len(b.v) = 2
                 THEN [ok |-> TRUE, v |-> [algo |-> "EcdsaP256", bytes |-> b.v]]
                 ELSE [ok |-> FALSE, v |-> NoSig]))

NoVersion == [major |-> 0, minor |-> 0, patch |-> 0]

Version_to_string(v) ==
    DecEncode(v.major) \o Dot \o DecEncode(v.minor) \o Dot \o DecEncode(v.patch)
Version_parse(t) ==
    With(IndexFrom(t, 46, 1), LAMBDA d1 :
    With(IF d1 = 0 THEN 0 ELSE IndexFrom(t, 46, d1 + 1), LAMBDA d2 :
        IF d1 = 0 \/ d2 = 0 THEN [ok |-> FALSE, v |-> NoVersion]
        ELSE With(DecDecode(SubSeq(t, 1, d1 - 1)), LAMBDA ma :
             With(DecDecode(SubSeq(t, d1 + 1, d2 - 1)), LAMBDA mi :
             With(DecDecode(SubSeq(t, d2 + 1, Len(t))), LAMBDA pa :
                 IF ma.ok /\ mi.ok /\ pa.ok
                 THEN [ok |-> TRUE, v |-> [major |-> ma.v, minor |-> mi.v, patch |-> pa.v]]
                 ELSE [ok |-> FALSE, v |-> NoVersion])))))


(***************************************************************************)
(* The protobuf wire format as prost reads and writes it (proto3).         *)
(***************************************************************************)
WtVarint == 0
WtFixed64 == 1
WtLen == 2
WtFixed32 == 5

\* encode_varint, for 0 <= n < 2^31
RECURSIVE EncVarint(_)
EncVarint(n) ==
    IF n < 128 THEN <<n>> ELSE <<128 + (n % 128)>> \o EncVarint(n \div 128)

\* An int32 or int64 as a varint: a negative value is sign-extended to 64 bits
\* and takes ten bytes (here for -2^28 <= v < 0).
EncVarintSigned(v) ==
    IF v >= 0 THEN EncVarint(v)
    ELSE LET low == Pow2(28) + v
         IN  <<128 + (low % 128), 128 + ((low \div Pow2(7)) % 128),
               128 + ((low \div Pow2(14)) % 128), 128 + ((low \div Pow2(21)) % 128),
               255, 255, 255, 255, 255, 1>>

BadVarint == [ok |-> FALSE, val |-> 0, next |-> 0]

\* The 7-bit groups of the varint at b[i], least significant first; n counts
\* the bytes read so far. It fails when the buffer ends inside the varint,
\* and on a tenth byte above 1.
RECURSIVE VarintGroups(_, _, _)
VarintGroups(b, i, n) ==
    IF i > Len(b) THEN [ok |-> FALSE, gs |-> <<>>, next |-> 0]
    ELSE IF n = 10
         THEN IF b[i] <= 1 THEN [ok |-> TRUE, gs |-> <<b[i]>>, next |-> i + 1]
              ELSE [ok |-> FALSE, gs |-> <<>>, next |-> 0]
    ELSE IF b[i] < 128 THEN [ok |-> TRUE, gs |-> <<b[i]>>, next |-> i + 1]
    ELSE LET r == VarintGroups(b, i + 1, n + 1)
         IN  [ok |-> r.ok, gs |-> <<b[i] - 128>> \o r.gs, next |-> r.next]

RECURSIVE GroupsValue(_)
GroupsValue(gs) == IF gs = <<>> THEN 0 ELSE gs[1] + 128 * GroupsValue(Tail(gs))

\* decode_varint, as a signed 64-bit number. The values the model's integers
\* hold are 0 <= v < 2^31 and -2^28 <= v < 0; no other value is ever written
\* by the encoders of this model, and one is reported as a failure.
DecVarint(b, i) ==
    With(VarintGroups(b, i, 1), LAMBDA g :
        IF ~g.ok THEN BadVarint
        ELSE IF Len(g.gs) = 10 /\ SubSeq(g.gs, 5, 10) = <<127, 127, 127, 127, 127, 1>>
             THEN [ok |-> TRUE, val |-> GroupsValue(SubSeq(g.gs, 1, 4)) - Pow2(28), next |-> g.next]
        ELSE IF Len(g.gs) <= 4 \/ (Len(g.gs) = 5 /\ g.gs[5] <= 7)
             THEN [ok |-> TRUE, val |-> GroupsValue(g.gs), next |-> g.next]
        ELSE BadVarint)

\* encode_key
EncKey(num, wt) == EncVarint(num * 8 + wt)

\* A varint field and a length-delimited field.
EncVarintField(num, v) == EncKey(num, WtVarint) \o EncVarintSigned(v)
EncLenField(num, payload) == EncKey(num, WtLen) \o EncVarint(Len(payload)) \o payload

BadFields == [ok |-> FALSE, fs |-> <<>>]

\* The fields of a message image from position i on: each field's number,
\* wire type, varint value and length-delimited payload (decode_key and the
\* reading or skipping of the value). It fails on a malformed key, a field
\* number 0, an unknown wire type, and a value that runs past the buffer.
RECURSIVE ParseFrom(_, _)

\* The field with its value v (a varint value and its end, or a payload and
\* its end), before the fields that follow it.
FieldThenRest(b, num, wt, val, payload, next) ==
    With(ParseFrom(b, next), LAMBDA rest :
        IF ~rest.ok THEN BadFields
        ELSE [ok |-> TRUE,
              fs |-> <<[num |-> num, wt |-> wt, val |-> val, payload |-> payload]>> \o rest.fs])

ParseFrom(b, i) ==
    IF i > Len(b) THEN [ok |-> TRUE, fs |-> <<>>]
    ELSE
    With(DecVarint(b, i), LAMBDA k :
        IF ~k.ok \/ k.val < 0 \/ k.val \div 8 = 0 THEN BadFields
        ELSE IF k.val % 8 = WtVarint THEN
            With(DecVarint(b, k.next), LAMBDA v :
                IF ~v.ok THEN BadFields
                ELSE FieldThenRest(b, k.val \div 8, WtVarint, v.val, <<>>, v.next))
        ELSE IF k.val % 8 = WtLen THEN
            With(DecVarint(b, k.next), LAMBDA l :
                IF ~l.ok \/ l.val < 0 \/ l.next + l.val - 1 > Len(b) THEN BadFields
                ELSE FieldThenRest(b, k.val \div 8, WtLen, 0,
                                   SubSeq(b, l.next, l.next + l.val - 1), l.next + l.val))
        ELSE IF k.val % 8 = WtFixed64 THEN
            IF k.next + 7 > Len(b) THEN BadFields
            ELSE FieldThenRest(b, k.val \div 8, WtFixed64, 0,
                               SubSeq(b, k.next, k.next + 7), k.next + 8)
        ELSE IF k.val % 8 = WtFixed32 THEN
            IF k.next + 3 > Len(b) THEN BadFields
            ELSE FieldThenRest(b, k.val \div 8, WtFixed32, 0,
                               SubSeq(b, k.next, k.next + 3), k.next + 4)
        ELSE BadFields)

ParseFields(b) == ParseFrom(b, 1)

\* A string field holds valid UTF-8; of the texts of this model the ASCII ones
\* are valid and every other byte is a malformed sequence.
ValidUtf8(t) == \A i \in DOMAIN t : t[i] < 128


(***************************************************************************)
(* mod protobuf: the messages generated from the registry's schema         *)
(*   Envelope      { contents: bytes(1), key_id: string(2),                *)
(*                   signature: string(3) }                                *)
(*   PackageRecord { prev: optional string(1), version: uint32(2),         *)
(*                   time: Timestamp(3), entries: repeated PackageEntry(4)}*)
(*   PackageEntry  { contents: oneof { Init(1), GrantFlat(2),              *)
(*                   RevokeFlat(3), Release(4), Yank(5) } }                *)
(*   Init { key(1), hash_algorithm(2) }  GrantFlat { key(1), permission(2)}*)
(*   RevokeFlat { key_id(1), permission(2) }                               *)
(*   Release { version(1), content_hash(2) }  Yank { version(1) }          *)
(*   Timestamp { seconds: int64(1), nanos: int32(2) }                      *)
(* and their encoding and decoding.                                        *)
(***************************************************************************)
None == [some |-> FALSE]
Some(x) == [some |-> TRUE, v |-> x]

\* enum Permission: the ordinals of the schema
ProtoPermissionRelease == 0
ProtoPermissionYank == 1

EntryKinds == <<"Init", "GrantFlat", "RevokeFlat", "Release", "Yank">>

\* Default::default() of each message
ProtoDefault(ty) ==
    CASE ty = "Envelope" -> [contents |-> <<>>, key_id |-> <<>>, signature |-> <<>>]
      [] ty = "PackageRecord" -> [prev |-> None, version |-> 0, time |-> None, entries |-> <<>>]
      [] ty = "PackageEntry" -> [contents |-> None]
      [] ty = "Timestamp" -> [seconds |-> 0, nanos |-> 0]
      [] ty = "Init" -> [kind |-> "Init", key |-> <<>>, hash_algorithm |-> <<>>]
      [] ty = "GrantFlat" -> [kind |-> "GrantFlat", key |-> <<>>, permission |-> 0]
      [] ty = "RevokeFlat" -> [kind |-> "RevokeFlat", key_id |-> <<>>, permission |-> 0]
      [] ty = "Release" -> [kind |-> "Release", version |-> <<>>, content_hash |-> <<>>]
      [] ty = "Yank" -> [kind |-> "Yank", version |-> <<>>]

\* proto3 writes a string, bytes or number field unless it has its default value.
EncString(num, t) == IF t = <<>> THEN <<>> ELSE EncLenField(num, t)
EncInt(num, v) == IF v = 0 THEN <<>> ELSE EncVarintField(num, v)

KindNumber(kind) == CHOOSE i \in DOMAIN EntryKinds : EntryKinds[i] = kind

\* Message::encode_to_vec: the fields in the order of their numbers
RECURSIVE ProtoEncode(_, _)
ProtoEncode(ty, m) ==
    CASE ty = "Envelope" ->
            EncString(1, m.contents) \o EncString(2, m.key_id) \o EncString(3, m.signature)
      [] ty = "Timestamp" -> EncInt(1, m.seconds) \o EncInt(2, m.nanos)
      [] ty = "Init" -> EncString(1, m.key) \o EncString(2, m.hash_algorithm)
      [] ty = "GrantFlat" -> EncString(1, m.key) \o EncInt(2, m.permission)
      [] ty = "RevokeFlat" -> EncString(1, m.key_id) \o EncInt(2, m.permission)
      [] ty = "Release" -> EncString(1, m.version) \o EncString(2, m.content_hash)
      [] ty = "Yank" -> EncString(1, m.version)
      [] ty = "PackageEntry" ->
            IF m.contents.some
            THEN EncLenField(KindNumber(m.contents.v.kind),
                             ProtoEncode(m.contents.v.kind, m.contents.v))
            ELSE <<>>
      [] ty = "EntryList" ->
            IF m = <<>> THEN <<>>
            ELSE EncLenField(4, ProtoEncode("PackageEntry", m[1]))
                 \o ProtoEncode("EntryList", Tail(m))
      [] ty = "PackageRecord" ->
            (IF m.prev.some THEN EncLenField(1, m.prev.v) ELSE <<>>)
            \o EncInt(2, m.version)
            \o (IF m.time.some THEN EncLenField(3, ProtoEncode("Timestamp", m.time.v)) ELSE <<>>)
            \o ProtoEncode("EntryList", m.entries)

BadMsg == [ok |-> FALSE]

\* The field f as a string, as a number: the wire type must be the field's.
AsString(f) ==
    IF f.wt = WtLen /\ ValidUtf8(f.payload) THEN [ok |-> TRUE, v |-> f.payload] ELSE BadMsg
AsBytes(f) == IF f.wt = WtLen THEN [ok |-> TRUE, v |-> f.payload] ELSE BadMsg
AsInt(f) == IF f.wt = WtVarint THEN [ok |-> TRUE, v |-> f.val] ELSE BadMsg
\* a uint32 of the model's range
AsUint32(f) == IF f.wt = WtVarint /\ f.val >= 0 THEN [ok |-> TRUE, v |-> f.val] ELSE BadMsg

\* m with field name set from the decoded value r
SetField(m, name, r) ==
    IF r.ok THEN [ok |-> TRUE, v |-> [m EXCEPT ![name] = r.v]] ELSE BadMsg

RECURSIVE ProtoMergeField(_, _, _)
RECURSIVE ProtoMergeAll(_, _, _)
RECURSIVE ProtoMerge(_, _, _)

\* Message::merge_field: one field of the image merged into message m. A
\* number or string field takes the last value written, a message field is
\* merged into the value already there, a repeated field is appended to, a
\* oneof keeps merging into the same case and is replaced by another case.
\* A field number the schema does not name is skipped.
ProtoMergeField(ty, m, f) ==
    CASE ty = "Envelope" ->
            CASE f.num = 1 -> SetField(m, "contents", AsBytes(f))
              [] f.num = 2 -> SetField(m, "key_id", AsString(f))
              [] f.num = 3 -> SetField(m, "signature", AsString(f))
              [] OTHER -> [ok |-> TRUE, v |-> m]
      [] ty = "Timestamp" ->
            CASE f.num = 1 -> SetField(m, "seconds", AsInt(f))
              [] f.num = 2 -> SetField(m, "nanos", AsInt(f))
              [] OTHER -> [ok |-> TRUE, v |-> m]
      [] ty = "Init" ->
            CASE f.num = 1 -> SetField(m, "key", AsString(f))
              [] f.num = 2 -> SetField(m, "hash_algorithm", AsString(f))
              [] OTHER -> [ok |-> TRUE, v |-> m]
      [] ty = "GrantFlat" ->
            CASE f.num = 1 -> SetField(m, "key", AsString(f))
              [] f.num = 2 -> SetField(m, "permission", AsInt(f))
              [] OTHER -> [ok |-> TRUE, v |-> m]
      [] ty = "RevokeFlat" ->
            CASE f.num = 1 -> SetField(m, "key_id", AsString(f))
              [] f.num = 2 -> SetField(m, "permission", AsInt(f))
              [] OTHER -> [ok |-> TRUE, v |-> m]
      [] ty = "Release" ->
            CASE f.num = 1 -> SetField(m, "version", AsString(f))
              [] f.num = 2 -> SetField(m, "content_hash", AsString(f))
              [] OTHER -> [ok |-> TRUE, v |-> m]
      [] ty = "Yank" ->
            CASE f.num = 1 -> SetField(m, "version", AsString(f))
              [] OTHER -> [ok |-> TRUE, v |-> m]
      [] ty = "PackageEntry" ->
            IF f.num \in DOMAIN EntryKinds
            THEN IF f.wt # WtLen THEN BadMsg
                 ELSE With(ProtoMerge(EntryKinds[f.num],
                                      IF m.contents.some /\ m.contents.v.kind = EntryKinds[f.num]
                                      THEN m.contents.v ELSE ProtoDefault(EntryKinds[f.num]),
                                      f.payload),
                           LAMBDA new : IF new.ok
                                        THEN [ok |-> TRUE, v |-> [contents |-> Some(new.v)]]
                                        ELSE BadMsg)
            ELSE [ok |-> TRUE, v |-> m]
      [] ty = "PackageRecord" ->
            CASE f.num = 1 ->
                    IF AsString(f).ok
                    THEN [ok |-> TRUE, v |-> [m EXCEPT !.prev = Some(f.payload)]]
                    ELSE BadMsg
              [] f.num = 2 -> SetField(m, "version", AsUint32(f))
              [] f.num = 3 ->
                    IF f.wt # WtLen THEN BadMsg
                    ELSE With(ProtoMerge("Timestamp",
                                         IF m.time.some THEN m.time.v
                                         ELSE ProtoDefault("Timestamp"),
                                         f.payload),
                              LAMBDA new : IF new.ok
                                           THEN [ok |-> TRUE, v |-> [m EXCEPT !.time = Some(new.v)]]
                                           ELSE BadMsg)
              [] f.num = 4 ->
                    IF f.wt # WtLen THEN BadMsg
                    ELSE With(ProtoMerge("PackageEntry", ProtoDefault("PackageEntry"), f.payload),
                              LAMBDA new :
                                  IF new.ok
                                  THEN [ok |-> TRUE, v |-> [m EXCEPT !.entries = Append(@, new.v)]]
                                  ELSE BadMsg)
              [] OTHER -> [ok |-> TRUE, v |-> m]

ProtoMergeAll(ty, m, fs) ==
    IF fs = <<>> THEN [ok |-> TRUE, v |-> m]
    ELSE With(ProtoMergeField(ty, m, fs[1]), LAMBDA r :
             IF r.ok THEN ProtoMergeAll(ty, r.v, Tail(fs)) ELSE BadMsg)

\* Message::merge: the image b merged into message m
ProtoMerge(ty, m, b) ==
    With(ParseFields(b), LAMBDA p : IF p.ok THEN ProtoMergeAll(ty, m, p.fs) ELSE BadMsg)

\* Message::decode
ProtoDecode(ty, b) == ProtoMerge(ty, ProtoDefault(ty), b)


(***************************************************************************)
(* package/model.rs                                                        *)
(*   PackageRecord { prev, version, timestamp, entries }                   *)
(*   PackageEntry: Init { hash_algorithm, key }, GrantFlat { key,          *)
(*     permission }, RevokeFlat { key_id, permission },                    *)
(*     Release { version, content }, Yank { version }                      *)
(*   Permission: "Release", "Yank"                                         *)
(* A SystemTime is held as the operating system holds it: whole seconds    *)
(* since the epoch (negative before it) and 0..999999999 nanoseconds.      *)
(***************************************************************************)
\* PackageEntry::required_permission
required_permission_by_kind(entry) ==
    CASE entry.kind = "Init" -> None
      [] entry.kind = "GrantFlat" -> Some(entry.permission)
      [] entry.kind = "RevokeFlat" -> Some(entry.permission)
      [] entry.kind = "Release" -> Some("Release")
      [] entry.kind = "Yank" -> Some("Yank")

required_permission(entry) ==
    CASE entry.kind = "Init" -> None
      [] entry.kind = "GrantFlat" -> None
      [] entry.kind = "RevokeFlat" -> None
      [] entry.kind = "Release" -> Some("Release")
      [] entry.kind = "Yank" -> Some("Yank")

(***************************************************************************)
(* package/mod.rs: serialization                                           *)
(***************************************************************************)
\* impl From<SystemTime> for Timestamp: the time since the epoch, or the time
\* before it, as seconds and non-negative nanoseconds
SystemTime_into_Timestamp(t) ==
    IF t.tv_sec >= 0
    THEN [seconds |-> t.tv_sec, nanos |-> t.tv_nsec]
    ELSE LET before == IF t.tv_nsec = 0
                       THEN [secs |-> -t.tv_sec, nanos |-> 0]
                       ELSE [secs |-> -t.tv_sec - 1, nanos |-> 1000000000 - t.tv_nsec]
         IN  IF before.nanos = 0
             THEN [seconds |-> -before.secs, nanos |-> 0]
             ELSE [seconds |-> -before.secs - 1, nanos |-> 1000000000 - before.nanos]

\* impl From<model::Permission> for i32
Permission_into_i32(permission) ==
    CASE permission = "Release" -> ProtoPermissionRelease
      [] permission = "Yank" -> ProtoPermissionYank

\* impl From<model::PackageEntry> for protobuf::PackageEntry
PackageEntry_into_proto_swapped(entry) ==
    [contents |-> Some(
        CASE entry.kind = "Init" ->
                [kind |-> "Init", key |-> HashAlgorithm_to_string(entry.hash_algorithm),
                 hash_algorithm |-> PublicKey_to_string(entry.key)]
          [] entry.kind = "GrantFlat" ->
                [kind |-> "GrantFlat", key |-> PublicKey_to_string(entry.key),
                 permission |-> Permission_into_i32(entry.permission)]
          [] entry.kind = "RevokeFlat" ->
                [kind |-> "RevokeFlat", key_id |-> Hash_to_string(entry.key_id),
                 permission |-> Permission_into_i32(entry.permission)]
          [] entry.kind = "Release" ->
                [kind |-> "Release", version |-> Hash_to_string(entry.content),
                 content_hash |-> Version_to_string(entry.version)]
          [] entry.kind = "Yank" ->
                [kind |-> "Yank", version |-> Version_to_string(entry.version)])]

PackageEntry_into_proto(entry) ==
    [contents |-> Some(
        CASE entry.kind = "Init" ->
                [kind |-> "Init", key |-> PublicKey_to_string(entry.key),
                 hash_algorithm |-> HashAlgorithm_to_string(entry.hash_algorithm)]
          [] entry.kind = "GrantFlat" ->
                [kind |-> "GrantFlat", key |-> PublicKey_to_string(entry.key),
                 permission |-> Permission_into_i32(entry.permission)]
          [] entry.kind = "RevokeFlat" ->
                [kind |-> "RevokeFlat", key_id |-> Hash_to_string(entry.key_id),
                 permission |-> Permission_into_i32(entry.permission)]
          [] entry.kind = "Release" ->
                [kind |-> "Release", version |-> Version_to_string(entry.version),
                 content_hash |-> Hash_to_string(entry.content)]
          [] entry.kind = "Yank" ->
                [kind |-> "Yank", version |-> Version_to_string(entry.version)])]

\* impl From<model::PackageRecord> for protobuf::PackageRecord
PackageRecord_into_proto(record) ==
    [prev |-> IF record.prev.some THEN Some(Hash_to_string(record.prev.v)) ELSE None,
     version |-> record.version,
     time |-> Some(SystemTime_into_Timestamp(record.timestamp)),
     entries |-> [i \in DOMAIN record.entries |-> PackageEntry_into_proto(record.entries[i])]]

\* impl From<model::PackageRecord> for Vec<u8>
PackageRecord_into_bytes(record) ==
    ProtoEncode("PackageRecord", PackageRecord_into_proto(record))

(***************************************************************************)
(* package/mod.rs: deserialization. Every failure is the unit error ().    *)
(***************************************************************************)
Err(e) == [ok |-> FALSE, err |-> e]
Ok(x) == [ok |-> TRUE, v |-> x]
UnitErr == Err("()")

\* Timestamp::normalize and impl TryFrom<Timestamp> for SystemTime: nanos are
\* brought into 0..999999999, carrying whole seconds (division truncates
\* towards zero), and the time is the epoch plus or minus the seconds, plus
\* the nanos.
Timestamp_try_into_SystemTime(ts) ==
    LET carry == IF ts.nanos >= 0 THEN ts.nanos \div 1000000000
                 ELSE -((-ts.nanos) \div 1000000000)
        rem == IF ts.nanos >= 0 THEN ts.nanos % 1000000000
               ELSE -((-ts.nanos) % 1000000000)
        secs == IF rem < 0 THEN ts.seconds + carry - 1 ELSE ts.seconds + carry
        nanos == IF rem < 0 THEN rem + 1000000000 ELSE rem
    IN  Ok([tv_sec |-> secs, tv_nsec |-> nanos])

\* impl TryFrom<i32> for model::Permission
Permission_try_from_i32(permission) ==
    CASE permission = ProtoPermissionRelease -> Ok("Release")
      [] permission = ProtoPermissionYank -> Ok("Yank")
      [] OTHER -> UnitErr

\* impl TryFrom<protobuf::PackageEntry> for model::PackageEntry
PackageEntry_try_from_proto(entry) ==
    IF ~entry.contents.some THEN UnitErr
    ELSE
    With(entry.contents.v, LAMBDA c :
        CASE c.kind = "Init" ->
                With(HashAlgorithm_parse(c.hash_algorithm), LAMBDA a :
                With(PublicKey_parse(c.key), LAMBDA k :
                    IF a.ok /\ k.ok
                    THEN Ok([kind |-> "Init", hash_algorithm |-> a.v, key |-> k.v])
                    ELSE UnitErr))
          [] c.kind = "GrantFlat" ->
                With(PublicKey_parse(c.key), LAMBDA k :
                With(Permission_try_from_i32(c.permission), LAMBDA p :
                    IF k.ok /\ p.ok
                    THEN Ok([kind |-> "GrantFlat", key |-> k.v, permission |-> p.v])
                    ELSE UnitErr))
          [] c.kind = "RevokeFlat" ->
                With(Hash_parse(c.key_id), LAMBDA k :
                With(Permission_try_from_i32(c.permission), LAMBDA p :
                    IF k.ok /\ p.ok
                    THEN Ok([kind |-> "RevokeFlat", key_id |-> k.v, permission |-> p.v])
                    ELSE UnitErr))
          [] c.kind = "Release" ->
                With(Version_parse(c.version), LAMBDA v :
                With(Hash_parse(c.content_hash), LAMBDA h :
                    IF v.ok /\ h.ok
                    THEN Ok([kind |-> "Release", version |-> v.v, content |-> h.v])
                    ELSE UnitErr))
          [] c.kind = "Yank" ->
                With(Version_parse(c.version), LAMBDA v :
                    IF v.ok THEN Ok([kind |-> "Yank", version |-> v.v]) ELSE UnitErr))

\* The record of the parsed parts: prev, time and entries are the results of
\* parsing record's fields.
RecordOfParts(record, prev, time, entries) ==
    IF ~prev.ok THEN UnitErr
    ELSE IF ~time.ok THEN UnitErr
    ELSE IF \E i \in DOMAIN entries : ~entries[i].ok THEN UnitErr
    ELSE Ok([prev |-> IF record.prev.some THEN Some(prev.v) ELSE None,
             version |-> record.version,
             timestamp |-> time.v,
             entries |-> [i \in DOMAIN entries |-> entries[i].v]])

\* impl TryFrom<protobuf::PackageRecord> for model::PackageRecord
PackageRecord_try_from_proto(record) ==
    RecordOfParts(record,
        IF record.prev.some THEN Hash_parse(record.prev.v) ELSE Ok(NoHash),
        IF record.time.some THEN Timestamp_try_into_SystemTime(record.time.v) ELSE UnitErr,
        [i \in DOMAIN record.entries |-> PackageEntry_try_from_proto(record.entries[i])])

\* impl TryFrom<&[u8]> for model::PackageRecord
PackageRecord_try_from_bytes(bytes) ==
    With(ProtoDecode("PackageRecord", bytes), LAMBDA p :
        IF p.ok THEN PackageRecord_try_from_proto(p.v) ELSE UnitErr)

(***************************************************************************)
(* package/mod.rs: Envelope { contents, content_bytes, key_id, signature } *)
(***************************************************************************)
\* Envelope::signed_contents: what it may return, one result (ret) for each
\* outcome of the signer (sign: a signature, or a failure)
signed_contents_signing_key_id(private_key, contents) ==
    With(PackageRecord_into_bytes(contents), LAMBDA content_bytes :
    With(PublicKey_digest(PrivateKey_public_key(private_key)), LAMBDA key_id :
        {[sign |-> s,
          ret |-> IF s.ok
                  THEN Ok([contents |-> contents, content_bytes |-> content_bytes,
                           key_id |-> key_id, signature |-> s.v])
                  ELSE Err("SignatureError")]
            : s \in PrivateKey_sign(private_key, Hash_to_string(key_id) \o content_bytes)}))

signed_contents(private_key, contents) ==
    With(PackageRecord_into_bytes(contents), LAMBDA content_bytes :
    With(PublicKey_digest(PrivateKey_public_key(private_key)), LAMBDA key_id :
        {[sign |-> s,
          ret |-> IF s.ok
                  THEN Ok([contents |-> contents, content_bytes |-> content_bytes,
                           key_id |-> key_id, signature |-> s.v])
                  ELSE Err("SignatureError")]
            : s \in PrivateKey_sign(private_key, content_bytes)}))

\* Envelope::as_bytes
Envelope_as_bytes_swapped(self) ==
    ProtoEncode("Envelope",
        [contents |-> self.content_bytes,
         key_id |-> Signature_to_string(self.signature),
         signature |-> Hash_to_string(self.key_id)])

Envelope_as_bytes_reencoding(self) ==
    ProtoEncode("Envelope",
        [contents |-> PackageRecord_into_bytes(self.contents),
         key_id |-> Hash_to_string(self.key_id),
         signature |-> Signature_to_string(self.signature)])

Envelope_as_bytes(self) ==
    ProtoEncode("Envelope",
        [contents |-> self.content_bytes,
         key_id |-> Hash_to_string(self.key_id),
         signature |-> Signature_to_string(self.signature)])

\* The public keys there are: whose digest a key id may be.
PublicKeys == {[algo |-> "EcdsaP256", bytes |-> <<b>>] : b \in 0..255}

\* Envelope::from_bytes
Envelope_from_bytes_verifying(bytes) ==
    With(ProtoDecode("Envelope", bytes), LAMBDA envelope :
        IF ~envelope.ok THEN Err("ProtobufEnvelopeParseError")
        ELSE
        With(PackageRecord_try_from_bytes(envelope.v.contents), LAMBDA contents :
        With(Hash_parse(envelope.v.key_id), LAMBDA key_id :
        With(Signature_parse(envelope.v.signature), LAMBDA signature :
            IF ~contents.ok THEN Err("ContentsParseError")
            ELSE IF ~key_id.ok THEN Err("KeyIDParseError")
            ELSE IF ~signature.ok THEN Err("SignatureParseError")
            ELSE IF ~\E pk \in PublicKeys :
                        /\ PublicKey_digest(pk) = key_id.v
                        /\ Verify(pk, envelope.v.contents, signature.v)
                 THEN Err("SignatureParseError")
            ELSE Ok([contents |-> contents.v, content_bytes |-> envelope.v.contents,
                     key_id |-> key_id.v, signature |-> signature.v])))))

Envelope_from_bytes(bytes) ==
    With(ProtoDecode("Envelope", bytes), LAMBDA envelope :
        IF ~envelope.ok THEN Err("ProtobufEnvelopeParseError")
        ELSE
        With(PackageRecord_try_from_bytes(envelope.v.contents), LAMBDA contents :
        With(Hash_parse(envelope.v.key_id), LAMBDA key_id :
        With(Signature_parse(envelope.v.signature), LAMBDA signature :
            IF ~contents.ok THEN Err("ContentsParseError")
            ELSE IF ~key_id.ok THEN Err("KeyIDParseError")
            ELSE IF ~signature.ok THEN Err("SignatureParseError")
            ELSE Ok([contents |-> contents.v, content_bytes |-> envelope.v.contents,
                     key_id |-> key_id.v, signature |-> signature.v])))))

(***************************************************************************)
(* The values the callers of the model hold. A result not yet returned is  *)
(* Idle; Done(r) is the returned r.                                        *)
(***************************************************************************)
Idle == [st |-> "idle"]
Done(r) == [st |-> "done", r |-> r]
IsOk(x) == x.st = "done" /\ x.r.ok
\* An image written by this code: canonical contents, the signer's key id and
\* a signature of the signer, the envelope's fields in order.
OwnImage == [style |-> "canonical", key |-> "good", sig |-> "valid", outer |-> "canonical"]
NoBuf == [what |-> "none", bytes |-> <<>>, from |-> "none", d |-> OwnImage]

alice_priv == [algo |-> "EcdsaP256", bytes |-> <<5>>]
bob_priv == [algo |-> "EcdsaP256", bytes |-> <<9>>]
alice_pub == PrivateKey_public_key(alice_priv)
bob_pub == PrivateKey_public_key(bob_priv)

NoEntry == [kind |-> "none"]

PathIdle ==
    /\ path = [all |-> <<>>, lhs |-> 0, rhs |-> 0]
    /\ fwd = <<>>
    /\ bwd = <<>>
    /\ ret = "new"
    /\ sawNone = FALSE
    /\ noneCalls = 0

EnvIdle ==
    /\ pkgRecord = [prev |-> None, version |-> 0, timestamp |-> [tv_sec |-> 0, tv_nsec |-> 0],
                 entries |-> <<>>]
    /\ privKey = alice_priv
    /\ env = Idle
    /\ buf = NoBuf
    /\ res = Idle
    /\ out = Idle

PermIdle ==
    /\ anEntry = NoEntry
    /\ perm = Idle

(***************************************************************************)
(* path.rs                                                                 *)
(***************************************************************************)
\* D::digest(key): the digest function is a parameter of Path; any sequence of
\* DigestLen bytes may be the digest of some key.
Digests == [1..DigestLen -> ByteVals]

\* Path::get. Indexing all[byte] out of range panics.
Path_get_lsb(p, at) ==
    LET shift == at % 8
        byte  == at \div 8
    IN  IF byte + 1 \in DOMAIN p.all
        THEN IF ((p.all[byte + 1] \div Pow2(shift)) % 2) = 1 THEN "true" ELSE "false"
        ELSE "panic"

Path_get(p, at) ==
    LET shift == 7 - (at % 8)
        byte  == at \div 8
    IN  IF byte + 1 \in DOMAIN p.all
        THEN IF ((p.all[byte + 1] \div Pow2(shift)) % 2) = 1 THEN "true" ELSE "false"
        ELSE "panic"

\* impl From<K> for Path<D>, given all = D::digest(key)
Path_from(all) == [all |-> all, lhs |-> 0, rhs |-> Len(all) * 8]

\* Iterator::size_hint (usize subtraction: rhs < lhs would overflow)
Path_size_hint(p) == p.rhs - p.lhs

\* DoubleEndedIterator::next_back: the new path, the position read, the result
Path_next_back_unguarded(p) ==
    LET q == [p EXCEPT !.rhs = p.rhs - 1]
    IN  [p |-> q, at |-> q.rhs, ret |-> Path_get(q, q.rhs)]

Path_next_back(p) ==
    IF p.lhs = p.rhs
    THEN [p |-> p, at |-> -1, ret |-> "None"]
    ELSE LET q == [p EXCEPT !.rhs = p.rhs - 1]
         IN  [p |-> q, at |-> q.rhs, ret |-> Path_get(q, q.rhs)]

\* Iterator::next
Path_next_to_end(p) ==
    IF p.lhs = Len(p.all) * 8
    THEN [p |-> p, at |-> -1, ret |-> "None"]
    ELSE LET q == [p EXCEPT !.lhs = p.lhs + 1]
         IN  [p |-> q, at |-> q.lhs - 1, ret |-> Path_get(q, q.lhs - 1)]

Path_next(p) ==
    IF p.lhs = p.rhs
    THEN [p |-> p, at |-> -1, ret |-> "None"]
    ELSE LET q == [p EXCEPT !.lhs = p.lhs + 1]
         IN  [p |-> q, at |-> q.lhs - 1, ret |-> Path_get(q, q.lhs - 1)]

InitPath ==
    /\ \E all \in Digests : path = Path_from(all)
    /\ fwd = <<>>
    /\ bwd = <<>>
    /\ ret = "new"
    /\ sawNone = FALSE
    /\ noneCalls = 0
    /\ EnvIdle
    /\ PermIdle

\* The bookkeeping of one call's result r.
Returned(r) ==
    /\ path' = r.p
    /\ ret' = r.ret
    /\ sawNone' = (sawNone \/ r.ret = "None")
    /\ noneCalls' = IF r.ret = "None" THEN noneCalls + 1 ELSE noneCalls

Next_ ==
    LET r == Path_next(path)
    IN  /\ ret # "panic"
        /\ r.ret = "None" => noneCalls < MaxNoneCalls
        /\ Returned(r)
        /\ fwd' = IF r.ret = "None" THEN fwd ELSE Append(fwd, [at |-> r.at, bit |-> r.ret])
        /\ bwd' = bwd
        /\ UNCHANGED <<envVars, permVars>>

NextBack ==
    LET r == Path_next_back(path)
    IN  /\ ret # "panic"
        /\ r.ret = "None" => noneCalls < MaxNoneCalls
        /\ Returned(r)
        /\ bwd' = IF r.ret = "None" THEN bwd ELSE Append(bwd, [at |-> r.at, bit |-> r.ret])
        /\ fwd' = fwd
        /\ UNCHANGED <<envVars, permVars>>

NextPath == Next_ \/ NextBack

SpecPath == InitPath /\ [][NextPath]_vars

(***************************************************************************)
(* Properties of the path (SpecPath).                                      *)
(***************************************************************************)
\* Bit i of the MSB-first bit sequence of digest all: (all[i/8] >> (7 - i%8)) & 1
ExpectedBit(all, i) ==
    IF ((all[(i \div 8) + 1] \div Pow2(7 - (i % 8))) % 2) = 1 THEN "true" ELSE "false"

NBits == 8 * DigestLen

\* C5: under every interleaving of next and next_back, the k-th bit returned
\* by next (k from 0) is bit k of the MSB-first sequence of the digest, the
\* j-th bit returned by next_back (j from 0) is bit 8N-1-j of it, and a path
\* iterated forward only has returned exactly 8N bits when next returns None.
PathBitOrder ==
    /\ \A k \in DOMAIN fwd : fwd[k].bit = ExpectedBit(path.all, k - 1)
    /\ \A j \in DOMAIN bwd : bwd[j].bit = ExpectedBit(path.all, NBits - j)
    /\ (sawNone /\ bwd = <<>>) => Len(fwd) = NBits

\* Both ends have returned bits of both values, from two different bytes.
PathBitOrderWitness ==
    /\ path.all = <<165, 1>>
    /\ Len(fwd) >= 3
    /\ Len(bwd) >= 9
    /\ ret = "None"

PathForwardOnlyWitness ==
    /\ bwd = <<>>
    /\ sawNone
    /\ Len(fwd) = NBits

\* The positions the calls so far have read.
Emitted == [i \in 1..(Len(fwd) + Len(bwd)) |->
                IF i <= Len(fwd) THEN fwd[i].at ELSE bwd[i - Len(fwd)].at]

\* C6: in every reachable state 0 <= lhs <= rhs <= 8N; the reported length is
\* rhs - lhs and is 8N less one for each bit returned so far; no position is
\* read twice, by either end.
PathLength ==
    /\ 0 <= path.lhs
    /\ path.lhs <= path.rhs
    /\ path.rhs <= NBits
    /\ Path_size_hint(path) = path.rhs - path.lhs
    /\ Path_size_hint(path) = NBits - (Len(fwd) + Len(bwd))
    /\ \A i, j \in DOMAIN Emitted : Emitted[i] = Emitted[j] => i = j
    /\ \A i \in DOMAIN Emitted : Emitted[i] \in 0..(NBits - 1)
    /\ ret # "panic"

\* The two ends have met inside the digest.
PathLengthWitness ==
    /\ path.lhs = path.rhs
    /\ Len(fwd) > 0
    /\ Len(bwd) > 0
    /\ Len(fwd) + Len(bwd) = NBits

\* C7: the iterator is fused: once a call has returned None, every later call
\* to next or next_back returns None and leaves lhs and rhs unchanged, and the
\* length stays 0.
PathFused ==
    [][sawNone => (ret' = "None" /\ path' = path /\ Path_size_hint(path') = 0)]_vars

\* Calls of both kinds have been made after the first None.
PathFusedWitness ==
    /\ noneCalls >= 2
    /\ Len(fwd) > 0
    /\ Len(bwd) > 0
    /\ Len(fwd) < NBits

(***************************************************************************)
(* The records, keys and byte images of the envelope model.                *)
(***************************************************************************)
\* One entry of each kind, as in tests::test_envelope_roundtrip, and a Yank.
EntrySet ==
    {[kind |-> "Init", hash_algorithm |-> "SHA256", key |-> alice_pub],
     [kind |-> "GrantFlat", key |-> bob_pub, permission |-> "Release"],
     [kind |-> "RevokeFlat", key_id |-> PublicKey_digest(bob_pub), permission |-> "Yank"],
     [kind |-> "Release", version |-> [major |-> 1, minor |-> 2, patch |-> 0],
      content |-> HashAlgorithm_digest("SHA256", <<0, 1, 2, 3>>)],
     [kind |-> "Yank", version |-> [major |-> 10, minor |-> 0, patch |-> 3]]}

EntrySeqs == UNION {[1..n -> EntrySet] : n \in 0..MaxEntries}

\* prev, version and timestamp: the genesis record at the epoch, and records
\* after and before the epoch.
Headers ==
    {[prev |-> None, version |-> 0, timestamp |-> [tv_sec |-> 0, tv_nsec |-> 0]],
     [prev |-> Some(HashAlgorithm_digest("SHA256", <<7>>)), version |-> 1,
      timestamp |-> [tv_sec |-> 1667347200, tv_nsec |-> 7]],
     [prev |-> Some(HashAlgorithm_digest("SHA256", <<>>)), version |-> 300,
      timestamp |-> [tv_sec |-> -2, tv_nsec |-> 999999999]],
     [prev |-> None, version |-> 0, timestamp |-> [tv_sec |-> -3, tv_nsec |-> 0]]}

Records ==
    {[prev |-> h.prev, version |-> h.version, timestamp |-> h.timestamp, entries |-> es]
        : h \in Headers, es \in EntrySeqs}

\* What another encoder of the same schema may write for a record. The first
\* four styles are images of the record that are not the canonical one; the
\* others are images no record has.
GoodStyles == {"reordered", "overwritten", "unknown_field", "long_varint"}
BadStyles == {"no_time", "no_contents", "bad_permission", "bad_text", "truncated",
              "wrong_wire_type"}

ImageOfProto(pr, canonical, time, prev, style) ==
    CASE style = "canonical" -> canonical
      [] style = "reordered" ->
            EncLenField(3, time) \o ProtoEncode("EntryList", pr.entries)
            \o EncVarintField(2, pr.version) \o prev
      [] style = "overwritten" -> EncVarintField(2, pr.version + 1) \o canonical
      [] style = "unknown_field" -> canonical \o EncVarintField(15, 1)
      [] style = "long_varint" ->
            prev \o EncInt(2, pr.version)
            \o EncKey(3, WtLen) \o <<128 + Len(time), 0>> \o time
            \o ProtoEncode("EntryList", pr.entries)
      [] style = "no_time" -> ProtoEncode("PackageRecord", [pr EXCEPT !.time = None])
      [] style = "no_contents" -> canonical \o EncLenField(4, <<>>)
      [] style = "bad_permission" ->
            canonical
            \o EncLenField(4, EncLenField(2, EncString(1, PublicKey_to_string(bob_pub))
                                             \o EncVarintField(2, 7)))
      [] style = "bad_text" -> canonical \o EncLenField(1, TxtSha256 \o Colon \o <<122, 122>>)
      [] style = "truncated" -> SubSeq(canonical, 1, Len(canonical) - 1)
      [] style = "wrong_wire_type" -> canonical \o EncLenField(2, <<1>>)

RecordImage(r, style) ==
    With(PackageRecord_into_proto(r), LAMBDA pr :
        ImageOfProto(pr, ProtoEncode("PackageRecord", pr), ProtoEncode("Timestamp", pr.time.v),
                     IF pr.prev.some THEN EncLenField(1, pr.prev.v) ELSE <<>>, style))

\* What another party may send as an envelope: the contents in one of the
\* styles; the key id of the signer or no key id at all; a signature of the
\* signer over these contents, a signature that does not verify over them, or
\* no signature at all; the envelope's fields in order, reversed, or cut short.
EnvelopeImages ==
    {[style |-> st, key |-> "good", sig |-> "valid", outer |-> "canonical"]
        : st \in {"canonical"} \cup GoodStyles \cup {"no_time", "truncated"}}
    \cup {[style |-> st, key |-> "good", sig |-> "forged", outer |-> "canonical"]
        : st \in {"canonical", "reordered"}}
    \cup {[style |-> "canonical", key |-> "bad", sig |-> "valid", outer |-> "canonical"],
          [style |-> "canonical", key |-> "good", sig |-> "bad", outer |-> "canonical"],
          [style |-> "no_time", key |-> "bad", sig |-> "bad", outer |-> "canonical"],
          [style |-> "canonical", key |-> "bad", sig |-> "bad", outer |-> "canonical"],
          [style |-> "overwritten", key |-> "good", sig |-> "valid", outer |-> "reversed"],
          [style |-> "canonical", key |-> "good", sig |-> "valid", outer |-> "truncated"]}

ForgedSignature(sk, msg) ==
    [algo |-> "EcdsaP256", bytes |-> <<(SigCheck(PrivateKey_public_key(sk), msg) + 1) % 256, 17>>]
ValidSignature(sk, msg) ==
    [algo |-> "EcdsaP256", bytes |-> <<SigCheck(PrivateKey_public_key(sk), msg), 17>>]

ImageOfParts(c, key, sig, outer) ==
    CASE outer = "canonical" -> EncString(1, c) \o EncString(2, key) \o EncString(3, sig)
      [] outer = "reversed" -> EncString(3, sig) \o EncString(2, key) \o EncString(1, c)
      [] outer = "truncated" ->
            With(EncString(1, c) \o EncString(2, key) \o EncString(3, sig),
                 LAMBDA canonical : SubSeq(canonical, 1, Len(canonical) - 1))

SignatureText(sk, c, sig) ==
    CASE sig = "valid" -> Signature_to_string(ValidSignature(sk, c))
      [] sig = "forged" -> Signature_to_string(ForgedSignature(sk, c))
      [] sig = "bad" -> TxtEcdsaP256 \o Colon \o <<122, 122>>

EnvelopeImage(r, sk, d) ==
    With(RecordImage(r, d.style), LAMBDA c :
        ImageOfParts(c,
            IF d.key = "good" THEN Hash_to_string(PublicKey_digest(PrivateKey_public_key(sk)))
            ELSE <<109, 100, 53, 58, 48, 48>>,
            SignatureText(sk, c, d.sig),
            d.outer))

(***************************************************************************)
(* The envelope model: a caller holds a record and a key and either signs  *)
(* the record, encodes the envelope and decodes it again; or encodes and   *)
(* decodes the record alone; or receives a record image or an envelope     *)
(* image of another party and decodes it, and encodes what it decoded.     *)
(***************************************************************************)
InitEnv ==
    /\ pkgRecord \in Records
    /\ privKey \in {alice_priv, bob_priv}
    /\ env = Idle
    /\ buf = NoBuf
    /\ res = Idle
    /\ out = Idle
    /\ PathIdle
    /\ PermIdle

SignedContents ==
    /\ env = Idle
    /\ buf = NoBuf
    /\ \E x \in signed_contents(privKey, pkgRecord) :
          env' = [st |-> "done", r |-> x.ret, sign |-> x.sign]
    /\ UNCHANGED <<pkgRecord, privKey, buf, res, out, pathVars, permVars>>

AsBytesSigned ==
    /\ IsOk(env)
    /\ buf = NoBuf
    /\ buf' = [what |-> "envelope", bytes |-> Envelope_as_bytes(env.r.v),
               from |-> "as_bytes", d |-> OwnImage]
    /\ UNCHANGED <<pkgRecord, privKey, env, res, out, pathVars, permVars>>

IntoBytes ==
    /\ env = Idle
    /\ buf = NoBuf
    /\ buf' = [what |-> "record", bytes |-> PackageRecord_into_bytes(pkgRecord),
               from |-> "into_bytes", d |-> OwnImage]
    /\ UNCHANGED <<pkgRecord, privKey, env, res, out, pathVars, permVars>>

ReceiveRecord ==
    /\ env = Idle
    /\ buf = NoBuf
    /\ \E style \in GoodStyles \cup BadStyles :
          buf' = [what |-> "record", bytes |-> RecordImage(pkgRecord, style),
                  from |-> "foreign", d |-> [OwnImage EXCEPT !.style = style]]
    /\ UNCHANGED <<pkgRecord, privKey, env, res, out, pathVars, permVars>>

ReceiveEnvelope ==
    /\ env = Idle
    /\ buf = NoBuf
    /\ \E d \in EnvelopeImages :
          buf' = [what |-> "envelope", bytes |-> EnvelopeImage(pkgRecord, privKey, d),
                  from |-> "foreign", d |-> d]
    /\ UNCHANGED <<pkgRecord, privKey, env, res, out, pathVars, permVars>>

TryFromBytes ==
    /\ buf.what = "record"
    /\ res = Idle
    /\ res' = Done(PackageRecord_try_from_bytes(buf.bytes))
    /\ UNCHANGED <<pkgRecord, privKey, env, buf, out, pathVars, permVars>>

FromBytes ==
    /\ buf.what = "envelope"
    /\ res = Idle
    /\ res' = Done(Envelope_from_bytes(buf.bytes))
    /\ UNCHANGED <<pkgRecord, privKey, env, buf, out, pathVars, permVars>>

AsBytesDecoded ==
    /\ buf.what = "envelope"
    /\ IsOk(res)
    /\ out = Idle
    /\ out' = Done(Envelope_as_bytes(res.r.v))
    /\ UNCHANGED <<pkgRecord, privKey, env, buf, res, pathVars, permVars>>

NextEnv ==
    \/ SignedContents
    \/ AsBytesSigned
    \/ IntoBytes
    \/ ReceiveRecord
    \/ ReceiveEnvelope
    \/ TryFromBytes
    \/ FromBytes
    \/ AsBytesDecoded

SpecEnv == InitEnv /\ [][NextEnv]_vars

(***************************************************************************)
(* Properties of the envelope and the record codec (SpecEnv).              *)
(***************************************************************************)
SignerPub == PrivateKey_public_key(privKey)

\* C1: from_bytes of as_bytes of an envelope returned by signed_contents
\* succeeds and returns an envelope equal to it in contents, content_bytes,
\* key_id and signature.
EnvelopeRoundTrip ==
    (buf.from = "as_bytes" /\ res.st = "done") =>
        /\ res.r.ok
        /\ res.r.v.contents = env.r.v.contents
        /\ res.r.v.content_bytes = env.r.v.content_bytes
        /\ res.r.v.key_id = env.r.v.key_id
        /\ res.r.v.signature = env.r.v.signature

EnvelopeRoundTripWitness ==
    /\ buf.from = "as_bytes"
    /\ IsOk(res)
    /\ Len(pkgRecord.entries) >= 2
    /\ pkgRecord.prev.some

\* C2: decoding the bytes produced by encoding a record succeeds and yields a
\* record equal to it, with the entries in the same order.
RecordRoundTrip ==
    (buf.from = "into_bytes" /\ res.st = "done") =>
        /\ res.r.ok
        /\ res.r.v.prev = pkgRecord.prev
        /\ res.r.v.version = pkgRecord.version
        /\ res.r.v.timestamp = pkgRecord.timestamp
        /\ Len(res.r.v.entries) = Len(pkgRecord.entries)
        /\ \A i \in DOMAIN pkgRecord.entries : res.r.v.entries[i] = pkgRecord.entries[i]

RecordRoundTripWitness ==
    /\ buf.from = "into_bytes"
    /\ IsOk(res)
    /\ Len(pkgRecord.entries) >= 2
    /\ pkgRecord.entries[1].kind = "Release"
    /\ pkgRecord.entries[2].kind = "Init"
    /\ pkgRecord.timestamp.tv_sec < 0
    /\ pkgRecord.timestamp.tv_nsec > 0

RecordRoundTripEmptyWitness ==
    /\ buf.from = "into_bytes"
    /\ IsOk(res)
    /\ pkgRecord.entries = <<>>

\* C3: an envelope returned by signed_contents holds the contents given, their
\* encoding as content_bytes, the digest of the signer's public key as key_id
\* and a signature that verifies under that key over exactly content_bytes;
\* signed_contents fails only when the signer fails, with the signer's error
\* and no envelope.
SignedEnvelope ==
    env.st = "done" =>
        /\ env.r.ok <=> env.sign.ok
        /\ env.r.ok =>
              /\ env.r.v.contents = pkgRecord
              /\ env.r.v.content_bytes = PackageRecord_into_bytes(pkgRecord)
              /\ env.r.v.key_id = PublicKey_digest(SignerPub)
              /\ env.r.v.signature = env.sign.v
              /\ Verify(SignerPub, env.r.v.content_bytes, env.r.v.signature)
        /\ ~env.r.ok => env.r = Err("SignatureError")

SignedEnvelopeWitness ==
    /\ IsOk(env)
    /\ Len(pkgRecord.entries) >= 1
    /\ privKey = bob_priv

SignerFailsWitness ==
    /\ env.st = "done"
    /\ ~env.r.ok

\* The contents bytes, the key id and the signature the image in buf was
\* written with.
ContentsSent ==
    IF buf.from = "as_bytes" THEN env.r.v.content_bytes ELSE RecordImage(pkgRecord, buf.d.style)
SignatureSent ==
    IF buf.from = "as_bytes" THEN env.r.v.signature
    ELSE IF buf.d.sig = "valid" THEN ValidSignature(privKey, ContentsSent)
    ELSE ForgedSignature(privKey, ContentsSent)

\* C4: an envelope that from_bytes returns holds the contents bytes of the
\* image verbatim, also when they are not the canonical encoding of the
\* decoded contents; as_bytes of it writes the same contents bytes with the
\* same key id and signature, so that a signature valid over the contents
\* bytes of the image is valid over those of the image written again.
VerbatimContents ==
    (buf.what = "envelope" /\ IsOk(res)) =>
        /\ res.r.v.content_bytes = ContentsSent
        /\ res.r.v.key_id = PublicKey_digest(SignerPub)
        /\ res.r.v.signature = SignatureSent
        /\ out.st = "done" =>
              LET o == ProtoDecode("Envelope", out.r)
              IN  /\ o.ok
                  /\ o.v.contents = ContentsSent
                  /\ Hash_parse(o.v.key_id) = [ok |-> TRUE, v |-> PublicKey_digest(SignerPub)]
                  /\ Signature_parse(o.v.signature) = [ok |-> TRUE, v |-> SignatureSent]
                  /\ Verify(SignerPub, ContentsSent, SignatureSent)
                        => Verify(SignerPub, o.v.contents, Signature_parse(o.v.signature).v)

\* An image with contents that are not the canonical encoding of the record
\* they decode to, signed over these contents, has been decoded and written.
VerbatimContentsWitness ==
    /\ buf.what = "envelope"
    /\ buf.d.style = "overwritten"
    /\ IsOk(res)
    /\ out.st = "done"
    /\ PackageRecord_into_bytes(res.r.v.contents) # res.r.v.content_bytes
    /\ res.r.v.contents = pkgRecord
    /\ Verify(SignerPub, res.r.v.content_bytes, res.r.v.signature)

\* The record image holds no time field; it holds an entry without contents.
TimeAbsent(bytes) ==
    LET p == ProtoDecode("PackageRecord", bytes) IN p.ok /\ ~p.v.time.some
ContentsAbsent(bytes) ==
    LET p == ProtoDecode("PackageRecord", bytes)
    IN  p.ok /\ \E i \in DOMAIN p.v.entries : ~p.v.entries[i].contents.some
\* The envelope image holds a record image with one of these flaws.
InnerFieldAbsent(bytes) ==
    LET o == ProtoDecode("Envelope", bytes)
    IN  o.ok /\ (TimeAbsent(o.v.contents) \/ ContentsAbsent(o.v.contents))

\* C8: decoding a record image whose time field is absent, or with an entry
\* whose contents are absent, fails with the error MissingRequiredField and
\* yields no record, and from_bytes of an envelope with such contents fails.
MissingFieldIsNamed ==
    /\ (buf.what = "record" /\ res.st = "done"
            /\ (TimeAbsent(buf.bytes) \/ ContentsAbsent(buf.bytes)))
        => res.r = Err("MissingRequiredField")
    /\ (buf.what = "envelope" /\ res.st = "done" /\ InnerFieldAbsent(buf.bytes))
        => ~res.r.ok

\* What the code does there: decoding such a record image fails with the unit
\* error (), the one error TryFrom<&[u8]> for PackageRecord has, and yields no
\* record; from_bytes of an envelope with such contents fails with
\* ContentsParseError.
MissingFieldFails ==
    /\ (buf.what = "record" /\ res.st = "done"
            /\ (TimeAbsent(buf.bytes) \/ ContentsAbsent(buf.bytes)))
        => res.r = UnitErr
    /\ (buf.what = "envelope" /\ res.st = "done" /\ InnerFieldAbsent(buf.bytes))
        => res.r = Err("ContentsParseError")

MissingFieldWitness ==
    /\ buf.what = "record"
    /\ res.st = "done"
    /\ TimeAbsent(buf.bytes)
    /\ Len(pkgRecord.entries) >= 1

MissingContentsWitness ==
    /\ buf.what = "record"
    /\ res.st = "done"
    /\ ContentsAbsent(buf.bytes)

MissingFieldEnvelopeWitness ==
    /\ buf.what = "envelope"
    /\ res.st = "done"
    /\ InnerFieldAbsent(buf.bytes)

ParseEnvelopeErrors ==
    {"ProtobufEnvelopeParseError", "ContentsParseError", "KeyIDParseError", "SignatureParseError"}

\* C9: from_bytes does not verify the signature: it returns the populated
\* envelope for every image whose outer shape parses, whose contents decode
\* and whose key id and signature are well-formed, whether or not the
\* signature verifies; and the errors it returns are the four parse errors.
NoVerification ==
    (buf.what = "envelope" /\ res.st = "done") =>
        LET o == ProtoDecode("Envelope", buf.bytes)
        IN  /\ (/\ o.ok
                /\ PackageRecord_try_from_bytes(o.v.contents).ok
                /\ Hash_parse(o.v.key_id).ok
                /\ Signature_parse(o.v.signature).ok)
               => /\ res.r.ok
                  /\ res.r.v.contents = PackageRecord_try_from_bytes(o.v.contents).v
                  /\ res.r.v.content_bytes = o.v.contents
                  /\ res.r.v.key_id = Hash_parse(o.v.key_id).v
                  /\ res.r.v.signature = Signature_parse(o.v.signature).v
            /\ ~res.r.ok => res.r.err \in ParseEnvelopeErrors

\* An envelope has been returned whose signature does not verify over its
\* content_bytes under the key its key_id names.
NoVerificationWitness ==
    /\ buf.what = "envelope"
    /\ IsOk(res)
    /\ res.r.v.key_id = PublicKey_digest(SignerPub)
    /\ ~Verify(SignerPub, res.r.v.content_bytes, res.r.v.signature)

\* Each of the four errors has been returned.
ErrorReturned(e) == buf.what = "envelope" /\ res.st = "done" /\ res.r = Err(e)
OuterErrorWitness == ErrorReturned("ProtobufEnvelopeParseError")
ContentsErrorWitness == ErrorReturned("ContentsParseError")
KeyIdErrorWitness == ErrorReturned("KeyIDParseError")
SignatureErrorWitness == ErrorReturned("SignatureParseError")

(***************************************************************************)
(* The permission model: required_permission of any entry.                 *)
(***************************************************************************)
Versions == {[major |-> ma, minor |-> mi, patch |-> pa] : ma \in {1, 10}, mi \in {0, 2}, pa \in {0, 3}}
Hashes == {HashAlgorithm_digest("SHA256", d) : d \in {<<>>, <<0, 1, 2, 3>>, <<5>>, <<9>>}}
Permissions == {"Release", "Yank"}

AllEntries ==
    {[kind |-> "Init", hash_algorithm |-> "SHA256", key |-> k] : k \in {alice_pub, bob_pub}}
    \cup {[kind |-> "GrantFlat", key |-> k, permission |-> p]
            : k \in {alice_pub, bob_pub}, p \in Permissions}
    \cup {[kind |-> "RevokeFlat", key_id |-> h, permission |-> p] : h \in Hashes, p \in Permissions}
    \cup {[kind |-> "Release", version |-> v, content |-> h] : v \in Versions, h \in Hashes}
    \cup {[kind |-> "Yank", version |-> v] : v \in Versions}

InitPerm ==
    /\ anEntry \in AllEntries
    /\ perm = Idle
    /\ PathIdle
    /\ EnvIdle

RequiredPermission ==
    /\ perm = Idle
    /\ perm' = Done(required_permission(anEntry))
    /\ UNCHANGED <<anEntry, pathVars, envVars>>

NextPerm == RequiredPermission

SpecPerm == InitPerm /\ [][NextPerm]_vars

PermissionReleaseWitness ==
    /\ perm.st = "done"
    /\ anEntry.kind = "Release"
    /\ perm.r = Some("Release")

====
